---- MODULE Spec2Model ----
(***************************************************************************)
(* Debate chess: the DebateModerator, its InteractionMediator, the team    *)
(* PsychologicalState, the agents' EmotionalStates, the GameMemory and the *)
(* AgentCaretaker, as one state machine.                                   *)
(*                                                                         *)
(* Representation.  A Python string is a sequence of one-character         *)
(* strings ("e2e4" is <<"e","2","e","4">>), so that slicing and indexing   *)
(* (move[2:4], piece_id[0], name[0]) are computed, not assumed.  Floats    *)
(* are exact fixed-point integers: scores, trust and team psychology in    *)
(* hundredths, interaction impacts in tenths, emotional fields in units of *)
(* 1/EmoOne.  None is the empty sequence and a present value x is <<x>>.   *)
(* A proposal's score, interaction type, tactical context and affected     *)
(* pieces come from the agent's evaluation of the move (external engine    *)
(* and narrative code): they are inputs of ConductDebate.                  *)
(***************************************************************************)
EXTENDS Integers, Sequences, FiniteSets, TLC

VARIABLES
    move_history,          \* DebateChessGame.move_history (the board is its replay)
    pieces,                \* DebateModerator.pieces: piece_id -> agent
    emotional,             \* the EmotionalState objects, by identity
    psychological_state,   \* DebateModerator.psychological_state
    trust_matrix,          \* RelationshipNetwork.trust_matrix
    recent_interactions,   \* RelationshipNetwork.recent_interactions
    debate_history,        \* DebateModerator.debate_history
    game_memory,           \* DebateModerator.game_memory
    caretaker,             \* AgentCaretaker.history
    last_call              \* the last API call: its arguments, the state it
                           \* started from and its outcome

vars == <<move_history, pieces, emotional, psychological_state, trust_matrix,
          recent_interactions, debate_history, game_memory, caretaker, last_call>>

-----------------------------------------------------------------------------
(* Bounds of the model *)

MaxDebates == 1
MaxInteractions == 2
MaxPlies == 1
MaxLegal == 2
RankMoves == 3
OpeningPlies == 8
ConsensusRounds == 6
ImpactSteps == 3
MaxRegistered == 3

-----------------------------------------------------------------------------
(* Values *)

None == <<>>
Some(x) == <<x>>
IsNone(o) == o = <<>>
Get(o) == o[1]

Min(S) == CHOOSE x \in S : \A y \in S : x <= y
Max(S) == CHOOSE x \in S : \A y \in S : x >= y
Abs(x) == IF x < 0 THEN -x ELSE x
Range(s) == {s[i] : i \in 1..Len(s)}

\* the one element of a singleton; {F(v) : v \in {x}} computes x, then F
\* of its value, as two statements in order
Only(S) == CHOOSE r \in S : TRUE

\* 1.0 and 0.0 of an emotional field; 1.0 of a team scalar
EmoOne == 400000
PsyOne == 100
ClampEmo(x) == IF x < 0 THEN 0 ELSE IF x > EmoOne THEN EmoOne ELSE x
ClampPsy(x) == IF x < 0 THEN 0 ELSE IF x > PsyOne THEN PsyOne ELSE x

-----------------------------------------------------------------------------
(* The board: python-chess as the moderator uses it *)

Files == <<"a", "b", "c", "d", "e", "f", "g", "h">>
Ranks == <<"1", "2", "3", "4", "5", "6", "7", "8">>
Squares == {<<Files[f], Ranks[r]>> : f \in 1..8, r \in 1..8}
FileIdx(c) == CHOOSE i \in 1..8 : Files[i] = c

WhiteSymbols == {"P", "N", "B", "R", "Q", "K"}
BackRank == <<"R", "N", "B", "Q", "K", "B", "N", "R">>
LowerOf == [s \in WhiteSymbols |->
              CASE s = "P" -> "p" [] s = "N" -> "n" [] s = "B" -> "b"
                [] s = "R" -> "r" [] s = "Q" -> "q" [] OTHER -> "k"]
IsWhite(sym) == sym \in WhiteSymbols
Upper(sym) == IF sym \in WhiteSymbols \/ sym = "." THEN sym
              ELSE CHOOSE s \in WhiteSymbols : LowerOf[s] = sym

\* chess.Board(): the starting position
StartingBoard ==
    [sq \in Squares |->
        CASE sq[2] = "1" -> BackRank[FileIdx(sq[1])]
          [] sq[2] = "2" -> "P"
          [] sq[2] = "7" -> "p"
          [] sq[2] = "8" -> LowerOf[BackRank[FileIdx(sq[1])]]
          [] OTHER -> "."]

FromSquare(m) == SubSeq(m, 1, 2)
ToSquare(m) == SubSeq(m, 3, 4)

\* board.push(move): the move, with castling, en passant and promotion
Push(b, m) ==
    LET from == FromSquare(m)
        to == ToSquare(m)
        p == b[from]
        placed == IF Len(m) = 5
                  THEN (IF IsWhite(p) THEN Upper(m[5]) ELSE m[5])
                  ELSE p
        castle == p \in {"K", "k"} /\ Abs(FileIdx(to[1]) - FileIdx(from[1])) = 2
        kingside == FileIdx(to[1]) > FileIdx(from[1])
        rookFrom == <<IF kingside THEN "h" ELSE "a", from[2]>>
        rookTo == <<IF kingside THEN "f" ELSE "d", from[2]>>
        enPassant == p \in {"P", "p"} /\ from[1] # to[1] /\ b[to] = "."
    IN [sq \in Squares |->
          CASE sq = from -> "."
            [] sq = to -> placed
            [] castle /\ sq = rookFrom -> "."
            [] castle /\ sq = rookTo -> b[rookFrom]
            [] enPassant /\ sq = <<to[1], from[2]>> -> "."
            [] OTHER -> b[sq]]

RECURSIVE BoardAfter(_)
BoardAfter(h) ==
    IF h = <<>> THEN StartingBoard
    ELSE Push(BoardAfter(SubSeq(h, 1, Len(h) - 1)), h[Len(h)])

-----------------------------------------------------------------------------
(* Agents *)

\* PieceAgentFactory.create_all_agents: one agent per white piece of the
\* starting position, keyed piece_id = type + square, in piece_map order
\* (h2 .. a2, h1 .. a1)
AgentSeq ==
    [i \in 1..16 |->
        LET sq == <<Files[8 - ((i - 1) % 8)], IF i <= 8 THEN "2" ELSE "1">>
        IN <<StartingBoard[sq]>> \o sq]
AgentIds == Range(AgentSeq)

\* create_agent: every agent of a type is handed the one EmotionalState
\* object DEFAULT_EMOTIONAL_STATES[piece_type]; the object's identity is the
\* type letter
InitialPieces ==
    [id \in AgentIds |->
        [board_piece |-> id[1],
         square |-> SubSeq(id, 2, 3),
         emotional_state |-> id[1]]]

Emotions == {"confidence", "morale", "trust", "aggression"}
EmoTenth == EmoOne \div 10
EmotionalStateOf(c, m, t, a) ==
    [e \in Emotions |->
        EmoTenth * (CASE e = "confidence" -> c [] e = "morale" -> m
                      [] e = "trust" -> t [] OTHER -> a)]

DEFAULT_EMOTIONAL_STATES ==
    [ty \in WhiteSymbols |->
        CASE ty = "N" -> EmotionalStateOf(7, 8, 6, 7)
          [] ty = "B" -> EmotionalStateOf(6, 7, 4, 5)
          [] ty = "R" -> EmotionalStateOf(3, 5, 7, 2)
          [] ty = "Q" -> EmotionalStateOf(8, 6, 4, 7)
          [] ty = "K" -> EmotionalStateOf(2, 4, 5, 3)
          [] OTHER -> EmotionalStateOf(5, 8, 7, 6)]

\* personality.name[0].upper(): the name is "<title> <name>", the titles
\* being Sir, Bishop, Rook, Queen, King and Pawn
NameInitial(ty) == IF ty = "N" THEN "S" ELSE ty

\* EmotionalState.apply_impact; the variant clamps at 0.0 only
ApplyImpactBelow(es, impact) ==
    [e \in Emotions |->
        IF e \in DOMAIN impact
        THEN (IF es[e] + impact[e] < 0 THEN 0 ELSE es[e] + impact[e])
        ELSE es[e]]
apply_impact(es, impact) ==
    [e \in Emotions |->
        IF e \in DOMAIN impact THEN ClampEmo(es[e] + impact[e]) ELSE es[e]]

-----------------------------------------------------------------------------
(* RelationshipNetwork *)

CooperativeTypes == {"COOPERATION", "SUPPORT"}
Window == 5
DefaultTrust == 50

RECURSIVE SumImpact(_)
SumImpact(s) == IF s = <<>> THEN 0 ELSE s[1].impact + SumImpact(Tail(s))

\* get_recent_cooperation, in units of 1/200 (exact: a cooperative
\* interaction's impact is +0.2 or -0.1 and at most five are averaged)
get_recent_cooperation(recent, piece1, piece2) ==
    IF recent = <<>> THEN 0
    ELSE
      LET n == Len(recent)
          lastN == SubSeq(recent, IF n > Window THEN n - Window + 1 ELSE 1, n)
          Between(i) == \/ (i.piece1 = piece1 /\ i.piece2 = piece2)
                        \/ (i.piece1 = piece2 /\ i.piece2 = piece1)
          relevant == SelectSeq(lastN, Between)
          IsCoop(i) == i.type \in CooperativeTypes
          cooperative == SelectSeq(relevant, IsCoop)
      IN IF relevant = <<>> THEN 0
         ELSE IF cooperative = <<>> THEN 0
         ELSE (20 * SumImpact(cooperative)) \div Len(cooperative)

\* get_support_bonus, in units of 1/BonusOne
BonusOne == 40000
get_support_bonus(matrix, recent, piece1, piece2) ==
    LET trust == IF <<piece1, piece2>> \in DOMAIN matrix
                 THEN matrix[<<piece1, piece2>>] ELSE DefaultTrust
    IN trust * (400 + get_recent_cooperation(recent, piece1, piece2))

-----------------------------------------------------------------------------
(* Observers.  A "world" w is the mutable state the mediator's callbacks   *)
(* touch: [emotional, psychological_state, trust_matrix,                   *)
(* recent_interactions].                                                   *)

\* PieceInteractionObserver.on_relationship_change, for one agent
PieceOnRelationshipChange(w, agent, piece1, piece2, change) ==
    LET piece_type == <<NameInitial(agent.board_piece)>>
        ref == agent.emotional_state
    IN IF piece1 = piece_type \/ piece2 = piece_type
       THEN
         LET es1 == apply_impact(w.emotional[ref],
                                 "trust" :> ((change * EmoOne) \div 200))
             other_piece == IF piece1 = piece_type THEN piece2 ELSE piece1
             bonus == get_support_bonus(w.trust_matrix, w.recent_interactions,
                                        piece_type, other_piece)
             es2 == IF bonus > 0
                    THEN apply_impact(es1, "morale" :> ((bonus * 3 * (EmoOne \div BonusOne)) \div 10))
                    ELSE es1
         IN [w EXCEPT !.emotional[ref] = es2]
       ELSE w

\* variant: every relationship change moves cohesion, whatever its size
TeamOnRelationshipChangeAlways(w, change) ==
    [w EXCEPT !.psychological_state.cohesion = ClampPsy(@ + ((change * 2) \div 10))]

\* variant: a change of exactly 0.3 already counts as significant
TeamOnRelationshipChangeInclusive(w, change) ==
    IF Abs(change) >= 30
    THEN [w EXCEPT !.psychological_state.cohesion = ClampPsy(@ + ((change * 2) \div 10))]
    ELSE w

\* TeamPsychologyObserver.on_relationship_change
TeamOnRelationshipChange(w, change) ==
    IF Abs(change) > 30
    THEN [w EXCEPT !.psychological_state.cohesion = ClampPsy(@ + ((change * 2) \div 10))]
    ELSE w

\* PieceInteractionObserver.on_game_moment, for one agent
PieceOnGameMoment(w, agent, moment) ==
    LET piece_type == NameInitial(agent.board_piece)
        ref == agent.emotional_state
    IN IF piece_type \in DOMAIN moment.impact
       THEN [w EXCEPT !.emotional[ref] = apply_impact(@, moment.impact[piece_type])]
       ELSE w

\* variant: a THREAT is handled on the TRAUMA branch
TeamOnGameMomentAsTrauma(w, moment) ==
    LET ps == w.psychological_state
    IN IF moment.interaction_type \in {"TRAUMA", "THREAT"}
       THEN [w EXCEPT !.psychological_state =
                [cohesion |-> ClampPsy(ClampPsy(ps.cohesion - 10) - 10),
                 morale |-> ClampPsy(ps.morale - 20),
                 coordination |-> ClampPsy(ps.coordination - 10),
                 leadership |-> ClampPsy(ps.leadership - 5)]]
       ELSE w

\* TeamPsychologyObserver.on_game_moment
TeamOnGameMoment(w, moment) ==
    LET ps == w.psychological_state
    IN CASE moment.interaction_type = "TRAUMA" ->
              [w EXCEPT !.psychological_state =
                  [cohesion |-> ClampPsy(ClampPsy(ps.cohesion - 10) - 10),
                   morale |-> ClampPsy(ps.morale - 20),
                   coordination |-> ClampPsy(ps.coordination - 10),
                   leadership |-> ClampPsy(ps.leadership - 5)]]
         [] moment.interaction_type = "THREAT" ->
              [w EXCEPT !.psychological_state =
                  [ps EXCEPT !.morale = ClampPsy(ps.morale - 10),
                             !.cohesion = ClampPsy(ps.cohesion + 10)]]
         [] OTHER -> w

\* InteractionMediator.notify_relationship: the piece observers in
\* registration order (DebateModerator.__init__), then the team observer
RECURSIVE NotifyPiecesRelationship(_, _, _, _, _, _)
NotifyPiecesRelationship(w, pcs, i, piece1, piece2, change) ==
    IF i > Len(AgentSeq) THEN w
    ELSE Only({NotifyPiecesRelationship(w1, pcs, i + 1, piece1, piece2, change) :
                 w1 \in {PieceOnRelationshipChange(w, pcs[AgentSeq[i]],
                                                   piece1, piece2, change)}})

notify_relationship(w, pcs, piece1, piece2, change) ==
    TeamOnRelationshipChange(
        NotifyPiecesRelationship(w, pcs, 1, piece1, piece2, change), change)

\* InteractionMediator.notify_moment
RECURSIVE NotifyPiecesMoment(_, _, _, _)
NotifyPiecesMoment(w, pcs, i, moment) ==
    IF i > Len(AgentSeq) THEN w
    ELSE Only({NotifyPiecesMoment(w1, pcs, i + 1, moment) :
                 w1 \in {PieceOnGameMoment(w, pcs[AgentSeq[i]], moment)}})

notify_moment(w, pcs, moment) ==
    TeamOnGameMoment(NotifyPiecesMoment(w, pcs, 1, moment), moment)

-----------------------------------------------------------------------------
(* InteractionMediator *)

\* variant: the whole impact becomes the trust change
TrustChangeUnscaled(impact) == impact * 10

\* trust_change = interaction.impact * 0.3, in hundredths
TrustChange(impact) == impact * 3

\* the variant adds the change to the pair's entry
RegisterInteractionAdding(w, pcs, interaction) ==
    LET key == <<interaction.piece1, interaction.piece2>>
        trust_change == TrustChange(interaction.impact)
        old == IF key \in DOMAIN w.trust_matrix THEN w.trust_matrix[key] ELSE 0
        w1 == [w EXCEPT !.recent_interactions = Append(@, interaction),
                        !.trust_matrix = (key :> (old + trust_change)) @@ @]
    IN notify_relationship(w1, pcs, interaction.piece1, interaction.piece2,
                           trust_change)
\* InteractionMediator.register_interaction
register_interaction(w, pcs, interaction) ==
    LET key == <<interaction.piece1, interaction.piece2>>
        trust_change == TrustChange(interaction.impact)
        w1 == [w EXCEPT !.recent_interactions = Append(@, interaction),
                        !.trust_matrix = (key :> trust_change) @@ @]
    IN notify_relationship(w1, pcs, interaction.piece1, interaction.piece2,
                           trust_change)

\* variant: STALKING falls through to the default impact
OpponentImpactNoStalking(interaction_type) ==
    CASE interaction_type = "TRAUMA" -> -5
      [] interaction_type = "THREAT" -> -3
      [] OTHER -> -1

\* the base impact of an opponent action, in tenths
OpponentImpact(interaction_type) ==
    CASE interaction_type = "TRAUMA" -> -5
      [] interaction_type = "THREAT" -> -3
      [] interaction_type = "STALKING" -> -2
      [] OTHER -> -1

\* InteractionMediator.register_opponent_action: the loop over
\* affected_pieces, from index i
RECURSIVE register_opponent_action(_, _, _, _, _, _, _)
register_opponent_action(w, pcs, move, affected_pieces, interaction_type, turn, i) ==
    IF i > Len(affected_pieces) THEN w
    ELSE
      LET piece_id == affected_pieces[i]
          impact == OpponentImpact(interaction_type)
          interaction == [piece1 |-> piece_id,
                          piece2 |-> <<"b", "l", "a", "c", "k", "_">> \o ToSquare(move),
                          type |-> interaction_type,
                          turn |-> turn,
                          move |-> move,
                          impact |-> impact]
          moment == [move |-> move,
                     impact |-> (piece_id[1] :>
                                   ("confidence" :> ((impact * 5 * EmoOne) \div 1000)
                                    @@ "morale" :> ((impact * 5 * EmoOne) \div 100))),
                     turn |-> turn,
                     participants |-> <<piece_id>>,
                     interaction_type |-> interaction_type]
          Moment(w1) == IF interaction_type \in {"TRAUMA", "THREAT"}
                        THEN notify_moment(w1, pcs, moment)
                        ELSE w1
          Rest(w2) == register_opponent_action(w2, pcs, move, affected_pieces,
                                               interaction_type, turn, i + 1)
      IN Only({Only({Rest(w2) : w2 \in {Moment(w1)}}) :
                  w1 \in {register_interaction(w, pcs, interaction)}})

-----------------------------------------------------------------------------
(* Agent positions *)

\* StandardDebate._find_piece_agent
_find_piece_agent(piece_type, square_name, pcs) ==
    LET Match(agent) == /\ Upper(agent.board_piece) = piece_type
                        /\ agent.square = square_name
        hits == {i \in 1..Len(AgentSeq) : Match(pcs[AgentSeq[i]])}
    IN IF hits = {} THEN None ELSE Some(AgentSeq[Min(hits)])

\* DebateModerator._update_piece_position
_update_piece_position(pcs, piece, move) ==
    LET found == _find_piece_agent(Upper(piece), FromSquare(move), pcs)
    IN IF IsNone(found) THEN pcs
       ELSE [pcs EXCEPT ![Get(found)].square = ToSquare(move)]

\* DebateModerator.update_piece_positions: the replay from chess.Board(),
\* from move i on board b
RECURSIVE ReplayPositions(_, _, _, _)
ReplayPositions(pcs, b, h, i) ==
    IF i > Len(h) THEN pcs
    ELSE
      LET piece == b[FromSquare(h[i])]
          pcs1 == IF IsWhite(piece) THEN _update_piece_position(pcs, piece, h[i])
                  ELSE pcs
      IN ReplayPositions(pcs1, Push(b, h[i]), h, i + 1)

update_piece_positions(pcs, h) == ReplayPositions(pcs, StartingBoard, h, 1)

\* What board.push does to the pieces the agents were created for, followed
\* piece by piece from move i on board b: the mover goes to the target
\* square, a piece standing on the target (or passed en passant) is
\* captured, and castling carries the rook across the king.  where[id] is
\* the square of agent id's piece, None once it is captured.
RECURSIVE PieceSquares(_, _, _, _)
PieceSquares(where, b, h, i) ==
    IF i > Len(h) THEN where
    ELSE
      LET m == h[i]
          from == FromSquare(m)
          to == ToSquare(m)
          p == b[from]
          castle == Upper(p) = "K" /\ Abs(FileIdx(m[3]) - FileIdx(m[1])) = 2
          rookFrom == <<IF m[3] = "g" THEN "h" ELSE "a", m[2]>>
          rookTo == <<IF m[3] = "g" THEN "f" ELSE "d", m[2]>>
          enPassant == Upper(p) = "P" /\ m[1] # m[3] /\ b[to] = "."
          taken == IF enPassant THEN <<m[3], m[2]>> ELSE to
          next == [id \in AgentIds |->
                     CASE where[id] = Some(from) -> Some(to)
                       [] where[id] = Some(taken) -> None
                       [] castle /\ where[id] = Some(rookFrom) -> Some(rookTo)
                       [] OTHER -> where[id]]
      IN Only({PieceSquares(w1, Push(b, m), h, i + 1) : w1 \in {next}})

\* create_all_agents puts agent "<type><square>" on the square in its id
ActualSquares(h) ==
    PieceSquares([id \in AgentIds |-> Some(<<id[2], id[3]>>)], StartingBoard, h, 1)

-----------------------------------------------------------------------------
(* Proposals and rounds *)

\* MoveProposal, as evaluate_move builds it for move m from the evaluation e;
\* the variant proposes the move back
ProposalReversed(m, e) ==
    [move |-> ToSquare(m) \o FromSquare(m),
     score |-> e.score,
     interaction_type |-> e.interaction_type,
     tactical_context |-> e.tactical_context,
     affected_pieces |-> e.affected_pieces]
Proposal(m, e) ==
    [move |-> m,
     score |-> e.score,
     interaction_type |-> e.interaction_type,
     tactical_context |-> e.tactical_context,
     affected_pieces |-> e.affected_pieces]

\* list.sort(key=score, reverse=True) and sorted(...): stable, descending;
\* the variant puts a proposal before those of equal score
InsertUnstable(sorted, p) ==
    LET k == Cardinality({i \in 1..Len(sorted) : sorted[i].score > p.score})
    IN SubSeq(sorted, 1, k) \o <<p>> \o SubSeq(sorted, k + 1, Len(sorted))
InsertByScore(sorted, p) ==
    LET k == Cardinality({i \in 1..Len(sorted) : sorted[i].score >= p.score})
    IN SubSeq(sorted, 1, k) \o <<p>> \o SubSeq(sorted, k + 1, Len(sorted))

RECURSIVE SortByScore(_)
SortByScore(s) ==
    IF s = <<>> THEN <<>>
    ELSE InsertByScore(SortByScore(SubSeq(s, 1, Len(s) - 1)), s[Len(s)])

\* StandardDebate._gather_proposals, the loop from move i with the proposals
\* collected so far: [raised, proposals].  agent.piece_id is read before the
\* "if agent" test, so an unresolved agent raises AttributeError.
RECURSIVE GatherFrom(_, _, _, _, _, _)
GatherFrom(b, pcs, moves, evals, i, acc) ==
    IF i > Len(moves) THEN [raised |-> "", proposals |-> acc]
    ELSE
      LET m == moves[i]
          piece == b[FromSquare(m)]
          agent == _find_piece_agent(Upper(piece), FromSquare(m), pcs)
      IN IF ~IsWhite(piece)
         THEN GatherFrom(b, pcs, moves, evals, i + 1, acc)
         ELSE IF IsNone(agent)
         THEN [raised |-> "AttributeError", proposals |-> acc]
         ELSE IF IsNone(evals[m])
         THEN GatherFrom(b, pcs, moves, evals, i + 1, acc)
         ELSE GatherFrom(b, pcs, moves, evals, i + 1,
                         Append(acc, Proposal(m, Get(evals[m]))))

_gather_proposals(b, pcs, moves, evals) ==
    LET g == GatherFrom(b, pcs, moves, evals, 1, <<>>)
    IN [g EXCEPT !.proposals = SortByScore(@)]

\* choose_winning_proposal: sorted(proposals, key=score, reverse=True)[0];
\* the variant takes the last of the sorted list
LowestScoring(proposals) == SortByScore(proposals)[Len(proposals)]
HighestScoring(proposals) == SortByScore(proposals)[1]

\* DebateRound.has_consensus; the variant counts a gap of exactly 0.2
ConsensusGap == 20
HasConsensusInclusive(proposals) ==
    \/ Len(proposals) < 2
    \/ Abs(proposals[1].score - proposals[2].score) <= ConsensusGap
has_consensus(proposals) ==
    \/ Len(proposals) < 2
    \/ Abs(proposals[1].score - proposals[2].score) < ConsensusGap

\* DebateRound.apply_consensus_impact
apply_consensus_impact(ps) ==
    [cohesion |-> ps.cohesion + 10,
     morale |-> ps.morale + 5,
     coordination |-> ps.coordination + 10,
     leadership |-> ps.leadership + 5]

\* PsychologicalState.simulate_psychological_impact: later assignments
\* overwrite earlier ones
EmptyImpact == [k \in {} |-> 0]
simulate_psychological_impact(proposal) ==
    LET base == CASE proposal.interaction_type = "SACRIFICE" ->
                       ("morale" :> 20 @@ "cohesion" :> 15)
                  [] proposal.interaction_type = "COMPETITION" ->
                       ("morale" :> -10 @@ "cohesion" :> -5)
                  [] proposal.interaction_type = "COOPERATION" ->
                       ("coordination" :> 15 @@ "cohesion" :> 10)
                  [] proposal.interaction_type = "SUPPORT" ->
                       ("morale" :> 5 @@ "leadership" :> 10)
                  [] OTHER -> EmptyImpact
        c1 == IF "is_check" \in proposal.tactical_context
              THEN ("confidence" :> 10) @@ base ELSE base
        c2 == IF "gives_discovered_attack" \in proposal.tactical_context
              THEN ("coordination" :> 20) @@ c1 ELSE c1
    IN IF "is_promotion" \in proposal.tactical_context
       THEN ("morale" :> 30) @@ c2 ELSE c2

-----------------------------------------------------------------------------
(* GameMemory and AgentCaretaker *)

InitialGameMemory ==
    [key_moments |-> <<>>,
     narrative_threads |-> [k \in {} |-> <<>>],
     emotional_triggers |-> [k \in {} |-> <<>>]]

AppendAt(f, k, x) ==
    IF k \in DOMAIN f THEN [f EXCEPT ![k] = Append(@, x)] ELSE (k :> <<x>>) @@ f

\* GameMemory.record_moment: [raised, game_memory].  max() of an empty
\* impact map raises ValueError, after the moment and the narrative are
\* appended.
TriggerThreshold == 20
record_moment(gm, position, move, emotional_impact) ==
    LET turn == Len(gm.key_moments) + 1
        moment == [position |-> position, move |-> move,
                   impact |-> emotional_impact, turn |-> turn]
        narrative == [turn |-> turn, move |-> move]
        piece == move[1]
        gm1 == [gm EXCEPT !.key_moments = Append(@, moment),
                          !.narrative_threads = AppendAt(@, piece, narrative)]
        values == {emotional_impact[k] : k \in DOMAIN emotional_impact}
    IN IF values = {}
       THEN [raised |-> "ValueError", game_memory |-> gm1]
       ELSE IF Abs(Max(values)) > TriggerThreshold
       THEN [raised |-> "",
             game_memory |->
                [gm1 EXCEPT !.emotional_triggers =
                    AppendAt(@, piece,
                             [pattern |-> position, impacts |-> emotional_impact,
                              memory |-> narrative, turn |-> Len(gm1.key_moments)])]]
       ELSE [raised |-> "", game_memory |-> gm1]

\* AgentCaretaker.save_state for every piece: the memento holds the agent's
\* EmotionalState object itself
SaveAll(ct, pcs, turn) ==
    [id \in AgentIds |->
        Append(ct[id], [emotional_state |-> pcs[id].emotional_state,
                        timestamp |-> turn])]

\* AgentCaretaker.save_state: one memento appended to the agent's list
save_state(ct, piece_type, agent, turn) ==
    AppendAt(ct, piece_type,
             [emotional_state |-> agent.emotional_state, timestamp |-> turn])

\* sorted(history, key=timestamp): stable, ascending.  A memento is named by
\* its place in the agent's list, which is what tells apart two mementos of
\* the same turn.
InsertByTimestamp(hist, sorted, i) ==
    LET k == Cardinality({j \in 1..Len(sorted) :
                             hist[sorted[j]].timestamp <= hist[i].timestamp})
    IN SubSeq(sorted, 1, k) \o <<i>> \o SubSeq(sorted, k + 1, Len(sorted))

RECURSIVE SortByTimestamp(_, _)
SortByTimestamp(hist, n) ==
    IF n = 0 THEN <<>>
    ELSE InsertByTimestamp(hist, SortByTimestamp(hist, n - 1), n)

\* the loop "for state in reversed(states)", from place i of the sorted list
RECURSIVE ScanReversed(_, _, _, _)
ScanReversed(hist, states, turn, i) ==
    IF i = 0 THEN None
    ELSE IF hist[states[i]].timestamp <= turn THEN Some(states[i])
    ELSE ScanReversed(hist, states, turn, i - 1)

\* variant: the sorted list is scanned from its front
RestoreEarliest(ct, piece_type, turn) ==
    IF piece_type \notin DOMAIN ct THEN None
    ELSE LET hist == ct[piece_type]
             hits == {i \in 1..Len(hist) : hist[i].timestamp <= turn}
         IN IF hits = {} THEN None
            ELSE Some(SortByTimestamp(hist, Len(hist))[1])

\* AgentCaretaker.restore_state: the memento returned, by its place in the
\* agent's list, or None
restore_state(ct, piece_type, turn) ==
    IF piece_type \notin DOMAIN ct THEN None
    ELSE LET hist == ct[piece_type]
             states == SortByTimestamp(hist, Len(hist))
         IN ScanReversed(hist, states, turn, Len(states))

-----------------------------------------------------------------------------
(* State *)

World ==
    [emotional |-> emotional,
     psychological_state |-> psychological_state,
     trust_matrix |-> trust_matrix,
     recent_interactions |-> recent_interactions]

SetWorld(w) ==
    /\ emotional' = w.emotional
    /\ psychological_state' = w.psychological_state
    /\ trust_matrix' = w.trust_matrix
    /\ recent_interactions' = w.recent_interactions

\* DebateChessGame.__init__ and DebateModerator.create_default
Init ==
    /\ move_history = <<>>
    /\ pieces = InitialPieces
    /\ emotional = DEFAULT_EMOTIONAL_STATES
    /\ psychological_state =
          [cohesion |-> 50, morale |-> 50, coordination |-> 50, leadership |-> 50]
    /\ trust_matrix = [k \in {} |-> 0]
    /\ recent_interactions = <<>>
    /\ debate_history = <<>>
    /\ game_memory = InitialGameMemory
    /\ caretaker = [id \in AgentIds |-> <<>>]
    /\ last_call = [op |-> "init", raised |-> ""]

\* A second moderator built by another DebateModerator.create_default call
\* and never operated on.  __init__ gives it its own PsychologicalState,
\* RelationshipNetwork, GameMemory and history; create_all_agents gives it
\* sixteen new agents, each holding DEFAULT_EMOTIONAL_STATES[piece_type]:
\* the very objects of the heap `emotional` that the first moderator's
\* agents hold.
SecondModerator ==
    [pieces |-> InitialPieces,
     psychological_state |->
        [cohesion |-> 50, morale |-> 50, coordination |-> 50, leadership |-> 50],
     trust_matrix |-> [k \in {} |-> 0],
     recent_interactions |-> <<>>,
     debate_history |-> <<>>,
     game_memory |-> InitialGameMemory]

\* what a moderator's agents read as their emotional state, given the heap
AgentEmotions(moderator, heap) ==
    [id \in AgentIds |-> heap[moderator.pieces[id].emotional_state]]

-----------------------------------------------------------------------------
(* DebateModerator.conduct_debate(position, moves), the position being the *)
(* game's (play_move); evals[m] is what the resolved agent's evaluate_move  *)
(* returns for move m: None or the evaluation the proposal is built from.   *)

DoConductDebate(moves, evals) ==
    LET position == move_history
        pcs == update_piece_positions(pieces, position)
        g == _gather_proposals(BoardAfter(position), pcs, moves, evals)
        call == [op |-> "conduct_debate", position |-> position,
                 moves |-> moves, evals |-> evals, before |-> World]
        turn == Len(debate_history)
    IN /\ pieces' = pcs
       /\ UNCHANGED <<move_history, emotional, trust_matrix, recent_interactions>>
       /\ IF g.raised # ""
          THEN \* _gather_proposals raised: nothing after it runs
               /\ last_call' = call @@ [raised |-> g.raised, round |-> 0]
               /\ UNCHANGED <<psychological_state, debate_history, game_memory,
                              caretaker>>
          ELSE
            /\ caretaker' = SaveAll(caretaker, pcs, turn)
            /\ IF g.proposals = <<>>
               THEN \* choose_winning_proposal returns None; None is appended
                    \* and None.winning_proposal raises
                    /\ debate_history' = Append(debate_history, None)
                    /\ last_call' = call @@ [raised |-> "AttributeError", round |-> 0]
                    /\ UNCHANGED <<psychological_state, game_memory>>
               ELSE
                 LET winning == HighestScoring(g.proposals)
                     debate == [position |-> position,
                                proposals |-> g.proposals,
                                winning_proposal |-> Some(winning)]
                     rec == record_moment(game_memory, position, winning.move,
                                          simulate_psychological_impact(winning))
                 IN /\ psychological_state' =
                          IF has_consensus(debate.proposals)
                          THEN apply_consensus_impact(psychological_state)
                          ELSE psychological_state
                    /\ debate_history' = Append(debate_history, Some(debate))
                    /\ game_memory' = rec.game_memory
                    /\ last_call' =
                          call @@ [raised |-> rec.raised,
                                   round |-> IF rec.raised = ""
                                             THEN Len(debate_history) + 1 ELSE 0]

\* the moves of the list that reach evaluate_move
EvaluatedMoves(moves) ==
    LET b == BoardAfter(move_history)
        pcs == update_piece_positions(pieces, move_history)
    IN {m \in Range(moves) :
          /\ IsWhite(b[FromSquare(m)])
          /\ ~IsNone(_find_piece_agent(Upper(b[FromSquare(m)]), FromSquare(m), pcs))}

\* legal-move lists: no move twice
MoveLists(S, n) ==
    {s \in UNION {[1..k -> S] : k \in 0..n} :
        \A i, j \in 1..Len(s) : s[i] = s[j] => i = j}

\* what evaluate_move may return for a piece of type ty
Flavors(ty) ==
    <<[interaction_type |-> "SUPPORT", tactical_context |-> {},
       affected_pieces |-> <<<<ty>>>>],
      [interaction_type |-> "None", tactical_context |-> {},
       affected_pieces |-> <<>>],
      [interaction_type |-> "COMPETITION", tactical_context |-> {"is_check"},
       affected_pieces |-> <<<<ty>>, <<"Q">>>>],
      [interaction_type |-> "SACRIFICE", tactical_context |-> {"is_promotion"},
       affected_pieces |-> <<<<ty>>, <<"K">>>>]>>

\* kinds: the <<score, flavor>> pairs an evaluation is drawn from
Evaluations(m, kinds) ==
    LET ty == Upper(BoardAfter(move_history)[FromSquare(m)])
    IN {None} \cup {Some([score |-> k[1]] @@ Flavors(ty)[k[2]]) : k \in kinds}

EvalChoices(moves, kinds) ==
    LET E == EvaluatedMoves(moves)
    IN {ev \in [E -> UNION {Evaluations(m, kinds) : m \in E}] :
          \A m \in E : ev[m] \in Evaluations(m, kinds)}

-----------------------------------------------------------------------------
(* DebateModerator.select_winning_proposal(debate, choice_idx); the round  *)
(* is the r-th of debate_history (conduct_debate returns the object it      *)
(* appended).                                                               *)

\* the range test of select_winning_proposal; the variant has no lower test
ValidChoiceBelow(choice_idx, proposals) == choice_idx < Len(proposals)
ValidChoice(choice_idx, proposals) ==
    0 <= choice_idx /\ choice_idx < Len(proposals)

\* list[i]: a negative index counts from the end
ListItem(list, i) == IF i < 0 THEN list[Len(list) + i + 1] ELSE list[i + 1]

\* The call that came before this one: its name, the round it returned
\* (0 when it returned none) and the team state it started from.
PriorCall ==
    IF last_call.op = "conduct_debate"
    THEN [op |-> last_call.op, round |-> last_call.round,
          psychological_state |-> last_call.before.psychological_state]
    ELSE [op |-> last_call.op, round |-> 0,
          psychological_state |-> psychological_state]

DoSelectWinningProposal(r, choice_idx) ==
    LET debate == Get(debate_history[r])
        call == [op |-> "select_winning_proposal", round |-> r,
                 choice_idx |-> choice_idx, before |-> World,
                 prior |-> PriorCall]
    IN IF ~ValidChoice(choice_idx, debate.proposals)
       THEN /\ last_call' = call @@ [raised |-> "ValueError"]
            /\ UNCHANGED <<move_history, pieces, emotional, psychological_state,
                           trust_matrix, recent_interactions, debate_history,
                           game_memory, caretaker>>
       ELSE
         LET winning_proposal == ListItem(debate.proposals, choice_idx)
             affected == winning_proposal.affected_pieces
             piece1 == IF affected # <<>> THEN affected[1] ELSE <<>>
             piece2 == IF Len(affected) > 1 THEN affected[2] ELSE <<>>
             interaction ==
                 [piece1 |-> piece1,
                  piece2 |-> IF piece2 # <<>> THEN piece2 ELSE piece1,
                  type |-> winning_proposal.interaction_type,
                  turn |-> Len(debate_history),
                  move |-> winning_proposal.move,
                  impact |-> IF choice_idx = 0 THEN 2 ELSE -1]
         IN /\ debate_history' =
                  [debate_history EXCEPT ![r] =
                      Some([debate EXCEPT !.winning_proposal = Some(winning_proposal)])]
            /\ IF piece1 # <<>>
               THEN SetWorld(register_interaction(World, pieces, interaction))
               ELSE SetWorld(World)
            /\ last_call' = call @@ [raised |-> "", proposal |-> winning_proposal]
            /\ UNCHANGED <<move_history, pieces, game_memory, caretaker>>

-----------------------------------------------------------------------------
(* InteractionMediator.register_opponent_action *)

DoRegisterOpponentAction(move, affected_pieces, interaction_type, turn) ==
    /\ SetWorld(register_opponent_action(World, pieces, move, affected_pieces,
                                         interaction_type, turn, 1))
    /\ last_call' = [op |-> "register_opponent_action", raised |-> "",
                     move |-> move, affected_pieces |-> affected_pieces,
                     interaction_type |-> interaction_type, turn |-> turn,
                     before |-> World]
    /\ UNCHANGED <<move_history, pieces, debate_history, game_memory, caretaker>>

-----------------------------------------------------------------------------
(* DebateChessGame._make_move, for a move the rules engine allows *)

GameMoves ==
    {<<"g", "1", "f", "3">>, <<"g", "2", "g", "3">>, <<"f", "1", "g", "2">>,
     <<"e", "1", "g", "1">>, <<"b", "8", "c", "6">>, <<"c", "6", "b", "8">>}

RankIdx(c) == CHOOSE i \in 1..8 : Ranks[i] = c

\* board.legal_moves for the moves the model plays and debates: knight
\* jumps, pawn pushes and captures, one-step bishop, rook and king moves and kingside
\* castling, in positions where no king is attacked
LegalMove(h, m) ==
    LET b == BoardAfter(h)
        p == b[FromSquare(m)]
        target == b[ToSquare(m)]
        whiteToMove == Len(h) % 2 = 0
        df == Abs(FileIdx(m[3]) - FileIdx(m[1]))
        dr == RankIdx(m[4]) - RankIdx(m[2])
        forward == IF whiteToMove THEN dr ELSE -dr
        own(x) == x # "." /\ IsWhite(x) = whiteToMove
        moved(x) == \E k \in 1..Len(h) : FromSquare(h[k]) = x
    IN /\ own(p)
       /\ ~own(target)
       /\ CASE Upper(p) = "N" -> {df, Abs(dr)} = {1, 2}
            [] Upper(p) = "P" ->
                  \/ /\ df = 0 /\ target = "."
                     /\ \/ forward = 1
                        \/ /\ forward = 2
                           /\ m[2] = (IF whiteToMove THEN "2" ELSE "7")
                           /\ b[<<m[1], Ranks[(RankIdx(m[2]) + RankIdx(m[4])) \div 2]>>] = "."
                  \/ df = 1 /\ forward = 1 /\ target # "."
            [] Upper(p) = "B" -> df = 1 /\ Abs(dr) = 1
            [] Upper(p) = "R" -> df + Abs(dr) = 1
            [] Upper(p) = "K" ->
                  \/ df <= 1 /\ Abs(dr) <= 1
                  \/ /\ df = 2 /\ dr = 0 /\ m[3] = "g" /\ target = "."
                     /\ b[<<"f", m[2]>>] = "."
                     /\ Upper(b[<<"h", m[2]>>]) = "R"
                     /\ ~moved(FromSquare(m)) /\ ~moved(<<"h", m[2]>>)
            [] OTHER -> FALSE

DoMakeMove(m) ==
    /\ LegalMove(move_history, m)
    /\ move_history' = Append(move_history, m)
    /\ last_call' = [op |-> "make_move", raised |-> "", move |-> m]
    /\ UNCHANGED <<pieces, emotional, psychological_state, trust_matrix,
                   recent_interactions, debate_history, game_memory, caretaker>>

-----------------------------------------------------------------------------
(* Spec: the moderator's operations in any order *)

DebateMoves ==
    {<<"b", "1", "c", "3">>, <<"e", "2", "e", "4">>, <<"b", "8", "c", "6">>}
DebateKinds == {<<10, 1>>, <<30, 2>>, <<30, 3>>}
OpponentMoves == {<<"d", "8", "h", "4">>}
OpponentTargets ==
    {<<<<"N", "b", "1">>>>, <<<<"P", "e", "2">>, <<"K", "e", "1">>>>}
OpponentTypes == {"TRAUMA", "THREAT", "STALKING", "BLOCKADE"}

LegalLists(S, n) ==
    MoveLists({m \in S : LegalMove(move_history, m)}, n)

ConductDebate ==
    /\ Len(debate_history) < MaxDebates
    /\ \E moves \in LegalLists(DebateMoves, MaxLegal) :
         \E evals \in EvalChoices(moves, DebateKinds) :
            DoConductDebate(moves, evals)

SelectWinningProposal ==
    /\ Len(recent_interactions) < MaxInteractions
    /\ \E r \in 1..Len(debate_history) :
         /\ ~IsNone(debate_history[r])
         /\ \E choice_idx \in -1..MaxLegal : DoSelectWinningProposal(r, choice_idx)

RegisterOpponentAction ==
    \E move \in OpponentMoves, affected_pieces \in OpponentTargets,
       interaction_type \in OpponentTypes :
       /\ Len(recent_interactions) + Len(affected_pieces) <= MaxInteractions
       /\ DoRegisterOpponentAction(move, affected_pieces, interaction_type, 1)

MakeMove ==
    /\ Len(move_history) < MaxPlies
    /\ \E m \in GameMoves : DoMakeMove(m)

Next ==
    \/ ConductDebate
    \/ SelectWinningProposal
    \/ RegisterOpponentAction
    \/ MakeMove

Spec == Init /\ [][Next]_vars
-----------------------------------------------------------------------------
(* SpecRank: an opening is played, then one debate over up to RankMoves    *)
(* legal moves of the position reached                                     *)

RankMoveSet ==
    {<<"b", "1", "c", "3">>, <<"e", "2", "e", "4">>, <<"d", "2", "d", "4">>,
     <<"f", "1", "e", "1">>, <<"b", "8", "c", "6">>, <<"c", "6", "b", "8">>}
RankKinds == {<<0, 1>>, <<10, 1>>, <<30, 1>>}

OpeningMove ==
    /\ last_call.op # "conduct_debate"
    /\ Len(move_history) < OpeningPlies
    /\ \E m \in GameMoves : DoMakeMove(m)

RankDebate ==
    /\ last_call.op # "conduct_debate"
    /\ \E moves \in LegalLists(RankMoveSet, RankMoves) :
         \E evals \in EvalChoices(moves, RankKinds) :
            DoConductDebate(moves, evals)

NextRank ==
    \/ OpeningMove
    \/ RankDebate

SpecRank == Init /\ [][NextRank]_vars

-----------------------------------------------------------------------------
(* SpecConsensus: one debate per turn, turn after turn *)

ConsensusMoves == {<<"e", "2", "e", "4">>}
ConsensusKinds == {<<10, 1>>, <<30, 2>>}

ConsensusDebate ==
    /\ Len(debate_history) < ConsensusRounds
    /\ \E moves \in LegalLists(ConsensusMoves, 1) :
         \E evals \in EvalChoices(moves, ConsensusKinds) :
            DoConductDebate(moves, evals)

NextConsensus == ConsensusDebate

SpecConsensus == Init /\ [][NextConsensus]_vars

-----------------------------------------------------------------------------
(* SpecEmotional: EmotionalState.apply_impact called on the shared objects *)
(* with any impact map, unknown keys included                              *)

ImpactKeys == Emotions \cup {"fear"}
ImpactDeltas == {-15, -3, 4, 15}
ImpactRefs == {"P", "K"}

ApplyImpact ==
    LET n == IF last_call.op = "apply_impact" THEN last_call.n ELSE 0
    IN /\ n < ImpactSteps
       /\ \E ref \in ImpactRefs, key \in ImpactKeys, d \in ImpactDeltas :
            LET impact == key :> (d * EmoTenth)
            IN /\ emotional' = [emotional EXCEPT ![ref] = apply_impact(@, impact)]
               /\ last_call' = [op |-> "apply_impact", raised |-> "", ref |-> ref,
                                impact |-> impact, before |-> emotional[ref],
                                n |-> n + 1]
       /\ UNCHANGED <<move_history, pieces, psychological_state, trust_matrix,
                      recent_interactions, debate_history, game_memory, caretaker>>

NextEmotional == ApplyImpact

SpecEmotional == Init /\ [][NextEmotional]_vars
-----------------------------------------------------------------------------
(* SpecTrust: InteractionMediator.register_interaction called directly, as *)
(* test_interaction_recording does                                         *)

TrustPieces == {<<"N">>, <<"Q">>}
TrustImpacts == {5, -5}

RegisterInteraction ==
    /\ Len(recent_interactions) < MaxRegistered
    /\ \E piece1 \in TrustPieces, piece2 \in TrustPieces, impact \in TrustImpacts :
         LET interaction == [piece1 |-> piece1, piece2 |-> piece2,
                             type |-> "SUPPORT", turn |-> 1,
                             move |-> <<"e", "2", "e", "4">>, impact |-> impact]
         IN /\ SetWorld(register_interaction(World, pieces, interaction))
            /\ last_call' = [op |-> "register_interaction", raised |-> "",
                             interaction |-> interaction]
    /\ UNCHANGED <<move_history, pieces, debate_history, game_memory, caretaker>>

NextTrust == RegisterInteraction

SpecTrust == Init /\ [][NextTrust]_vars
-----------------------------------------------------------------------------
(* SpecOpponent: InteractionMediator.register_opponent_action called on a  *)
(* fresh moderator, as test_register_opponent_action does, naming one      *)
(* agent of each piece type, two agents, or an id no agent has             *)

MaxOpponent == 2
UnknownId == <<"Z", "z", "9">>
NamedAgents ==
    {<<"N", "b", "1">>, <<"P", "e", "2">>, <<"K", "e", "1">>,
     <<"Q", "d", "1">>, <<"R", "a", "1">>, <<"B", "c", "1">>}
NamedTargets ==
    {<<id>> : id \in NamedAgents \cup {UnknownId}}
        \cup {<<<<"P", "e", "2">>, <<"K", "e", "1">>>>}
NamedTypes == {"TRAUMA", "THREAT", "STALKING", "BLOCKADE", "SUPPORT"}

OpponentAction ==
    /\ Len(recent_interactions) < MaxOpponent
    /\ \E move \in OpponentMoves, affected_pieces \in NamedTargets,
          interaction_type \in NamedTypes :
          DoRegisterOpponentAction(move, affected_pieces, interaction_type, 1)

NextOpponent == OpponentAction

SpecOpponent == Init /\ [][NextOpponent]_vars
-----------------------------------------------------------------------------
(* SpecThreat: a run of opponent actions long enough for team morale to    *)
(* reach its floor and team cohesion its cap                               *)

MaxThreats == 7
ThreatTargets ==
    {<<<<"P", "e", "2">>>>, <<<<"P", "e", "2">>, <<"K", "e", "1">>>>,
     <<<<"Q", "d", "1">>, <<"R", "a", "1">>, <<"R", "h", "1">>>>}
ThreatTypes == {"THREAT", "TRAUMA"}

ThreatAction ==
    /\ Len(recent_interactions) < MaxThreats
    /\ \E move \in OpponentMoves, affected_pieces \in ThreatTargets,
          interaction_type \in ThreatTypes :
          DoRegisterOpponentAction(move, affected_pieces, interaction_type, 1)

NextThreat == ThreatAction

SpecThreat == Init /\ [][NextThreat]_vars

-----------------------------------------------------------------------------
(* SpecMemory: GameMemory.record_moment called directly with impact maps   *)
(* over two team scalars, the empty map included                           *)

MaxMoments == 2
MemoryMoves == {<<"e", "2", "e", "4">>, <<"b", "1", "c", "3">>}
MemoryValues == {-30, 10, 30}
MemoryImpacts ==
    UNION {[keys -> MemoryValues] : keys \in SUBSET {"morale", "cohesion"}}

RecordMoment ==
    /\ Len(game_memory.key_moments) < MaxMoments
    /\ \E move \in MemoryMoves, emotional_impact \in MemoryImpacts :
         LET rec == record_moment(game_memory, move_history, move, emotional_impact)
         IN /\ game_memory' = rec.game_memory
            /\ last_call' = [op |-> "record_moment", raised |-> rec.raised,
                             move |-> move, emotional_impact |-> emotional_impact,
                             before |-> game_memory]
    /\ UNCHANGED <<move_history, pieces, emotional, psychological_state,
                   trust_matrix, recent_interactions, debate_history, caretaker>>

NextMemory == RecordMoment

SpecMemory == Init /\ [][NextMemory]_vars
-----------------------------------------------------------------------------
(* SpecCaretaker: AgentCaretaker.save_state and restore_state called       *)
(* directly, with turn numbers in any order                                *)

MaxSaved == 3
MaxTurn == 2
CaretakerIds == {<<"P", "e", "2">>, <<"K", "e", "1">>}

SaveState ==
    /\ \A id \in AgentIds : Len(caretaker[id]) < MaxSaved
    /\ \E piece_type \in CaretakerIds, turn \in 0..MaxTurn :
         /\ caretaker' = save_state(caretaker, piece_type, pieces[piece_type], turn)
         /\ last_call' = [op |-> "save_state", raised |-> "",
                          piece_type |-> piece_type, turn |-> turn,
                          before |-> caretaker]
    /\ UNCHANGED <<move_history, pieces, emotional, psychological_state,
                   trust_matrix, recent_interactions, debate_history, game_memory>>

RestoreState ==
    /\ \E piece_type \in CaretakerIds \cup {UnknownId}, turn \in -1..MaxTurn :
         last_call' = [op |-> "restore_state", raised |-> "",
                       piece_type |-> piece_type, turn |-> turn,
                       returned |-> restore_state(caretaker, piece_type, turn)]
    /\ UNCHANGED <<move_history, pieces, emotional, psychological_state,
                   trust_matrix, recent_interactions, debate_history, game_memory,
                   caretaker>>

NextCaretaker ==
    \/ SaveState
    \/ RestoreState

SpecCaretaker == Init /\ [][NextCaretaker]_vars
-----------------------------------------------------------------------------
(* SpecNetwork: interactions of several types and pairs registered through *)
(* InteractionMediator.register_interaction, and                           *)
(* RelationshipNetwork.get_support_bonus queried in between                *)

MaxNetwork == 6
NetworkInteractions ==
    {[piece1 |-> <<"N">>, piece2 |-> <<"Q">>, type |-> "SUPPORT", impact |-> 10],
     [piece1 |-> <<"Q">>, piece2 |-> <<"N">>, type |-> "COOPERATION", impact |-> -5],
     [piece1 |-> <<"N">>, piece2 |-> <<"Q">>, type |-> "COMPETITION", impact |-> -10],
     [piece1 |-> <<"R">>, piece2 |-> <<"B">>, type |-> "SUPPORT", impact |-> 1]}
NetworkPairs ==
    {<<<<"N">>, <<"Q">>>>, <<<<"Q">>, <<"N">>>>, <<<<"R">>, <<"B">>>>,
     <<<<"B">>, <<"N">>>>}

RegisterTyped ==
    /\ Len(recent_interactions) < MaxNetwork
    /\ \E i \in NetworkInteractions :
         LET interaction == i @@ [turn |-> 1, move |-> <<"e", "2", "e", "4">>]
         IN /\ SetWorld(register_interaction(World, pieces, interaction))
            /\ last_call' = [op |-> "register_interaction", raised |-> "",
                             interaction |-> interaction, before |-> World]
    /\ UNCHANGED <<move_history, pieces, debate_history, game_memory, caretaker>>

GetSupportBonus ==
    /\ \E pair \in NetworkPairs :
         last_call' = [op |-> "get_support_bonus", raised |-> "",
                       piece1 |-> pair[1], piece2 |-> pair[2],
                       returned |-> get_support_bonus(trust_matrix, recent_interactions,
                                                      pair[1], pair[2])]
    /\ UNCHANGED <<move_history, pieces, emotional, psychological_state,
                   trust_matrix, recent_interactions, debate_history, game_memory,
                   caretaker>>

NextNetwork ==
    \/ RegisterTyped
    \/ GetSupportBonus

SpecNetwork == Init /\ [][NextNetwork]_vars
-----------------------------------------------------------------------------
(* DebateChessGame.play_move(handle_black_move, is_test), as one step.  The *)
(* calls it makes are the operations above, here as functions of the state  *)
(* they start from so that they can be chained.                             *)

\* DebateModerator.conduct_debate: the fields it leaves, what it raised and
\* the round it returned (0 for none)
conduct_debate(pcs0, ps, dh, gm, ct, position, moves, evals) ==
    LET pcs == update_piece_positions(pcs0, position)
        g == _gather_proposals(BoardAfter(position), pcs, moves, evals)
        turn == Len(dh)
        base == [pieces |-> pcs, psychological_state |-> ps,
                 debate_history |-> dh, game_memory |-> gm, caretaker |-> ct,
                 raised |-> g.raised, round |-> 0]
    IN IF g.raised # "" THEN base
       ELSE IF g.proposals = <<>>
       THEN [base EXCEPT !.caretaker = SaveAll(ct, pcs, turn),
                         !.debate_history = Append(dh, None),
                         !.raised = "AttributeError"]
       ELSE
         LET winning == HighestScoring(g.proposals)
             debate == [position |-> position,
                        proposals |-> g.proposals,
                        winning_proposal |-> Some(winning)]
             rec == record_moment(gm, position, winning.move,
                                  simulate_psychological_impact(winning))
         IN [pieces |-> pcs,
             psychological_state |->
                 IF has_consensus(debate.proposals)
                 THEN apply_consensus_impact(ps) ELSE ps,
             debate_history |-> Append(dh, Some(debate)),
             game_memory |-> rec.game_memory,
             caretaker |-> SaveAll(ct, pcs, turn),
             raised |-> rec.raised,
             round |-> IF rec.raised = "" THEN Len(dh) + 1 ELSE 0]

\* DebateModerator.select_winning_proposal on the r-th round, for an index
\* that _get_player_choice has already found to be in range
select_winning_proposal(w, pcs, dh, r, choice_idx) ==
    LET debate == Get(dh[r])
        winning_proposal == ListItem(debate.proposals, choice_idx)
        affected == winning_proposal.affected_pieces
        piece1 == IF affected # <<>> THEN affected[1] ELSE <<>>
        piece2 == IF Len(affected) > 1 THEN affected[2] ELSE <<>>
        interaction ==
            [piece1 |-> piece1,
             piece2 |-> IF piece2 # <<>> THEN piece2 ELSE piece1,
             type |-> winning_proposal.interaction_type,
             turn |-> Len(dh),
             move |-> winning_proposal.move,
             impact |-> IF choice_idx = 0 THEN 2 ELSE -1]
    IN [debate_history |->
            [dh EXCEPT ![r] =
                Some([debate EXCEPT !.winning_proposal = Some(winning_proposal)])],
        world |-> IF piece1 # <<>> THEN register_interaction(w, pcs, interaction)
                  ELSE w,
        proposal |-> winning_proposal]

\* play_move on a position that is not over.  choice is the proposal number
\* the player ends up entering (the prompt repeats until it is in range) and
\* black_move the legal move entered at the Black prompt, if one is shown.
DoPlayMove(handle_black_move, is_test, moves, evals, choice, black_move) ==
    \E d \in {conduct_debate(pieces, psychological_state, debate_history,
                             game_memory, caretaker, move_history, moves, evals)} :
    LET call == [op |-> "play_move", handle_black_move |-> handle_black_move,
                 is_test |-> is_test, position |-> move_history,
                 moves |-> moves, choice |-> choice]
    IN /\ pieces' = d.pieces
       /\ game_memory' = d.game_memory
       /\ caretaker' = d.caretaker
       /\ IF d.raised # ""
          THEN \* the exception leaves play_move: no selection, no move
               /\ psychological_state' = d.psychological_state
               /\ debate_history' = d.debate_history
               /\ last_call' = call @@ [raised |-> d.raised, black_prompted |-> FALSE]
               /\ UNCHANGED <<move_history, emotional, trust_matrix,
                              recent_interactions>>
          ELSE
            /\ choice \in 0..(Len(Get(d.debate_history[d.round]).proposals) - 1)
            /\ \E sel \in {select_winning_proposal(
                                [World EXCEPT !.psychological_state = d.psychological_state],
                                d.pieces, d.debate_history, d.round, choice)} :
                 LET after_white == Append(move_history, sel.proposal.move)
                     \* _handle_black_move or _handle_player_move runs
                     black_prompted == handle_black_move \/ ~is_test
                 IN /\ SetWorld(sel.world)
                    /\ debate_history' = sel.debate_history
                    /\ IF black_prompted
                       THEN /\ LegalMove(after_white, black_move)
                            /\ move_history' = Append(after_white, black_move)
                       ELSE move_history' = after_white
                    /\ last_call' = call @@ [raised |-> "",
                                              black_prompted |-> black_prompted,
                                              proposal |-> sel.proposal]

-----------------------------------------------------------------------------
(* SpecPlay: play_move called turn after turn, the opponent's move being   *)
(* made by _handle_black_move when play_move left it out                   *)

MaxPlayPlies == 4
MaxPlayRounds == 2
PlayWhite ==
    {<<"e", "2", "e", "4">>, <<"g", "1", "f", "3">>, <<"f", "3", "g", "1">>}
PlayBlack == {<<"b", "8", "c", "6">>, <<"c", "6", "b", "8">>}
PlayKinds == {<<30, 1>>}

PlayMove ==
    /\ Len(move_history) % 2 = 0
    /\ Len(move_history) + 2 <= MaxPlayPlies
    /\ Len(debate_history) < MaxPlayRounds
    /\ \E handle_black_move \in BOOLEAN, is_test \in BOOLEAN :
         \E moves \in LegalLists(PlayWhite, MaxLegal) :
            \E evals \in EvalChoices(moves, PlayKinds) :
               \E choice \in 0..(MaxLegal - 1), black_move \in PlayBlack :
                  DoPlayMove(handle_black_move, is_test, moves, evals,
                             choice, black_move)

HandleBlackMove ==
    /\ Len(move_history) % 2 = 1
    /\ Len(move_history) < MaxPlayPlies
    /\ \E m \in PlayBlack : DoMakeMove(m)

NextPlay ==
    \/ PlayMove
    \/ HandleBlackMove

SpecPlay == Init /\ [][NextPlay]_vars
-----------------------------------------------------------------------------
(* SpecGame: the game turn by turn, as DebateChessGame.play_move drives it: *)
(* on white's turn a debate over the full move history, then a debated     *)
(* move is made; then the opponent's move is made                          *)

MaxGamePlies == 8
WhiteLine ==
    {<<"g", "1", "f", "3">>, <<"g", "2", "g", "3">>, <<"f", "1", "g", "2">>,
     <<"e", "1", "g", "1">>, <<"g", "1", "h", "1">>, <<"e", "2", "e", "4">>,
     <<"d", "2", "d", "3">>, <<"d", "3", "e", "4">>, <<"e", "4", "e", "5">>}
BlackLine ==
    {<<"b", "8", "c", "6">>, <<"c", "6", "b", "8">>, <<"d", "7", "d", "5">>,
     <<"d", "5", "e", "4">>}
GameKinds == {<<30, 1>>}

GameDebate ==
    /\ Len(move_history) % 2 = 0
    /\ last_call.op # "conduct_debate"
    /\ \E moves \in LegalLists(WhiteLine, 1) \ {<<>>} :
         \E evals \in EvalChoices(moves, GameKinds) :
            DoConductDebate(moves, evals)

GameWhiteMove ==
    /\ last_call.op = "conduct_debate"
    /\ last_call.round # 0
    /\ Len(move_history) < MaxGamePlies
    /\ DoMakeMove(Get(Get(debate_history[last_call.round]).winning_proposal).move)

GameBlackMove ==
    /\ Len(move_history) % 2 = 1
    /\ Len(move_history) < MaxGamePlies
    /\ \E m \in BlackLine : DoMakeMove(m)

NextGame ==
    \/ GameDebate
    \/ GameWhiteMove
    \/ GameBlackMove

SpecGame == Init /\ [][NextGame]_vars

-----------------------------------------------------------------------------
(* Properties *)

\* the last call was a conduct_debate that returned its round
Returned == last_call.op = "conduct_debate" /\ last_call.round # 0
ReturnedRound == Get(debate_history[last_call.round])

\* the moves of the last conduct_debate whose agent returned an evaluation
Successful == {m \in DOMAIN last_call.evals : ~IsNone(last_call.evals[m])}
\* a move's place in the list of legal moves handed to conduct_debate
InputIndex(m) == CHOOSE i \in 1..Len(last_call.moves) : last_call.moves[i] = m

\* the moves of the last conduct_debate that found a white piece without agent
Unresolved ==
    {m \in Range(last_call.moves) :
        /\ IsWhite(BoardAfter(last_call.position)[FromSquare(m)])
        /\ m \notin DOMAIN last_call.evals}

PsychScalars == {"cohesion", "morale", "coordination", "leadership"}

\* C1: after any sequence of debates each team scalar (cohesion, morale,
\* coordination, leadership) is within [0,1]: the consensus bonus is clamped
C1_PsychologicalStateInRange ==
    \A f \in PsychScalars :
        0 <= psychological_state[f] /\ psychological_state[f] <= PsyOne

\* the sixth consensus in a row has been applied to the initial 0.5
C1_SixConsensusRounds ==
    /\ Returned
    /\ last_call.round = ConsensusRounds
    /\ \A r \in 1..ConsensusRounds :
          /\ ~IsNone(debate_history[r])
          /\ has_consensus(Get(debate_history[r]).proposals)

\* C2: after any sequence of apply_impact calls, deltas of magnitude above 1
\* included, every field of every EmotionalState is within [0,1], and each
\* field named by the last impact is max(0, min(1, old + delta))
C2_EmotionalFieldsClamped ==
    /\ \A ref \in DOMAIN emotional : \A e \in Emotions :
          0 <= emotional[ref][e] /\ emotional[ref][e] <= EmoOne
    /\ last_call.op = "apply_impact" =>
          \A e \in Emotions :
             emotional[last_call.ref][e] =
                IF e \in DOMAIN last_call.impact
                THEN Max({0, Min({EmoOne, last_call.before[e] + last_call.impact[e]})})
                ELSE last_call.before[e]

\* a delta of magnitude above 1 took a field past 1.0 and it was cut to 1.0
C2_OvershootCut ==
    /\ last_call.op = "apply_impact"
    /\ \E e \in Emotions \cap DOMAIN last_call.impact :
          /\ last_call.impact[e] > EmoOne
          /\ last_call.before[e] > 0
          /\ emotional[last_call.ref][e] = EmoOne

\* C3: conduct_debate over moves that yield no proposal completes without
\* raising and returns a round with no proposals and no winner
C3_NoProposalsReturnsRound ==
    (last_call.op = "conduct_debate" /\ Successful = {} /\ Unresolved = {})
    => /\ last_call.raised = ""
       /\ Returned
       /\ ReturnedRound.proposals = <<>>
       /\ IsNone(ReturnedRound.winning_proposal)

\* C4: select_winning_proposal with an index below 0 or not below the
\* number of proposals raises, and the rounds, the interactions and the
\* trust matrix stay as they were
C4_OutOfRangeChangesNothing ==
    [][(/\ last_call'.op = "select_winning_proposal"
        /\ LET n == Len(Get(debate_history[last_call'.round]).proposals)
           IN last_call'.choice_idx < 0 \/ last_call'.choice_idx >= n)
       => /\ last_call'.raised = "ValueError"
          /\ debate_history' = debate_history
          /\ recent_interactions' = recent_interactions
          /\ trust_matrix' = trust_matrix]_vars

\* an index past the end was refused after interactions had been registered
C4_OutOfRangeSelected ==
    /\ last_call.op = "select_winning_proposal"
    /\ last_call.raised = "ValueError"
    /\ last_call.choice_idx >= Len(Get(debate_history[last_call.round]).proposals)
    /\ recent_interactions # <<>>

\* C5: a legal move whose agent gives no evaluation (None, or no agent at
\* the origin square) is skipped: the debate returns a round holding the
\* proposals of the moves that were evaluated
C5_UnevaluatedMoveSkipped ==
    (last_call.op = "conduct_debate" /\ Successful # {})
    => /\ Returned
       /\ {ReturnedRound.proposals[i].move :
              i \in 1..Len(ReturnedRound.proposals)} = Successful

\* a move was left out because its agent returned None, and the debate
\* returned the others
C5_NoneEvaluationSkipped ==
    /\ Returned
    /\ Successful # {}
    /\ \E m \in DOMAIN last_call.evals : IsNone(last_call.evals[m])

\* C6: the winning proposal of a returned round is element 0 of the ranked
\* list, no proposal scores higher, and among the top scorers it is the
\* earliest in the input order
C6_WinnerIsHighestScoring ==
    Returned =>
       LET ps == ReturnedRound.proposals
           winner == Get(ReturnedRound.winning_proposal)
       IN /\ ~IsNone(ReturnedRound.winning_proposal)
          /\ winner = ps[1]
          /\ \A i \in 1..Len(ps) :
                /\ ps[i].score <= winner.score
                /\ ps[i].score = winner.score
                      => InputIndex(winner.move) <= InputIndex(ps[i].move)

\* two proposals share the top score and a lower one came first in the input
C6_TiedTopScore ==
    /\ Returned
    /\ LET ps == ReturnedRound.proposals
       IN /\ Len(ps) = 3
          /\ ps[1].score = ps[2].score
          /\ ps[3].score < ps[1].score
          /\ InputIndex(ps[3].move) = 1
\* C7: the proposals of a returned round are, one for one, the supplied
\* moves that were evaluated: every proposal's move was supplied, no move
\* has two proposals, every evaluated move has one, and the winner is one
\* of the proposals
C7_ProposalsMatchEvaluatedMoves ==
    Returned =>
       LET ps == ReturnedRound.proposals
       IN /\ \A i \in 1..Len(ps) : ps[i].move \in Range(last_call.moves)
          /\ \A i, j \in 1..Len(ps) : ps[i].move = ps[j].move => i = j
          /\ {ps[i].move : i \in 1..Len(ps)} = Successful
          /\ Len(ps) = Cardinality(Successful)
          /\ ~IsNone(ReturnedRound.winning_proposal)
                => Get(ReturnedRound.winning_proposal) \in Range(ps)

\* three moves were supplied, one gave no evaluation, two proposals returned
C7_TwoOfThreeEvaluated ==
    /\ Returned
    /\ Len(last_call.moves) = 3
    /\ Cardinality(DOMAIN last_call.evals) = 3
    /\ Len(ReturnedRound.proposals) = 2

\* C8: in a returned round the scores never increase along the list, and
\* proposals of equal score keep the order of their moves in the input
C8_StableDescendingRanking ==
    Returned =>
       LET ps == ReturnedRound.proposals
       IN \A i, j \in 1..Len(ps) :
             i < j => /\ ps[i].score >= ps[j].score
                      /\ ps[i].score = ps[j].score
                            => InputIndex(ps[i].move) < InputIndex(ps[j].move)

\* the ranking moved a later move to the front and left a tie behind it
C8_TieBehindPromotedMove ==
    /\ Returned
    /\ LET ps == ReturnedRound.proposals
       IN /\ Len(ps) = 3
          /\ ps[2].score = ps[3].score
          /\ ps[1].score > ps[2].score
          /\ InputIndex(ps[1].move) = 3

\* C9: has_consensus is true exactly when the round has fewer than two
\* proposals or its first two scores differ by less than 0.2; the consensus
\* bonus of the debate is applied in exactly that case
C9_ConsensusIffCloseScores ==
    Returned =>
       LET ps == ReturnedRound.proposals
           close == IF Len(ps) < 2 THEN TRUE
                    ELSE ps[1].score - ps[2].score < 20
                         /\ ps[2].score - ps[1].score < 20
       IN /\ has_consensus(ps) <=> close
          /\ psychological_state.cohesion # 50 <=> close

\* the first two scores differ by exactly 0.2 and no bonus was applied
C9_GapExactlyThreshold ==
    /\ Returned
    /\ Len(ReturnedRound.proposals) >= 2
    /\ ReturnedRound.proposals[1].score - ReturnedRound.proposals[2].score = 20
    /\ psychological_state.cohesion = 50

-----------------------------------------------------------------------------
(* Properties of register_opponent_action *)

\* the last call was register_opponent_action with this interaction type
OpponentCall(ty) ==
    last_call.op = "register_opponent_action" /\ last_call.interaction_type = ty
\* the EmotionalState object an agent holds, read from a heap of such objects
EmotionalStateOfAgent(heap, id) == heap[pieces[id].emotional_state]

\* C11: a TRAUMA opponent action naming an agent whose confidence and morale
\* are above 0 strictly lowers that agent's confidence and morale, lowers
\* team morale, coordination and leadership, and raises no team scalar
C11_TraumaLowersNamedAgent ==
    OpponentCall("TRAUMA") =>
        LET before == last_call.before
        IN /\ \A i \in 1..Len(last_call.affected_pieces) :
                LET id == last_call.affected_pieces[i]
                    was == EmotionalStateOfAgent(before.emotional, id)
                    now == EmotionalStateOfAgent(emotional, id)
                IN (id \in AgentIds /\ was.confidence > 0 /\ was.morale > 0)
                      => now.confidence < was.confidence /\ now.morale < was.morale
           /\ \A f \in {"morale", "coordination", "leadership"} :
                before.psychological_state[f] > 0
                    => psychological_state[f] < before.psychological_state[f]
           /\ \A f \in PsychScalars :
                psychological_state[f] <= before.psychological_state[f]

C11_KnightNamedInTrauma ==
    /\ OpponentCall("TRAUMA")
    /\ last_call.affected_pieces = <<<<"N", "b", "1">>>>
    /\ emotional = last_call.before.emotional
    /\ psychological_state.morale < last_call.before.psychological_state.morale

\* C12: a THREAT opponent action naming n >= 1 agents lowers team morale by
\* 0.1 per named agent (not below 0), raises team cohesion by 0.1 per named
\* agent (not above 1) and leaves coordination and leadership as they were
C12_ThreatShiftsMoraleAndCohesion ==
    (OpponentCall("THREAT") /\ Len(last_call.affected_pieces) >= 1) =>
        LET was == last_call.before.psychological_state
            n == Len(last_call.affected_pieces)
        IN /\ psychological_state.morale = Max({0, was.morale - 10 * n})
           /\ psychological_state.cohesion = Min({PsyOne, was.cohesion + 10 * n})
           /\ psychological_state.coordination = was.coordination
           /\ psychological_state.leadership = was.leadership

C12_ThreatAtFloorAndCap ==
    /\ OpponentCall("THREAT")
    /\ Len(last_call.affected_pieces) = 3
    /\ last_call.before.psychological_state.morale = 20
    /\ last_call.before.psychological_state.cohesion = 80
    /\ psychological_state.morale = 0
    /\ psychological_state.cohesion = PsyOne

-----------------------------------------------------------------------------
(* Properties of select_winning_proposal *)

\* the last call was a select_winning_proposal that returned a proposal
Selected == last_call.op = "select_winning_proposal" /\ last_call.raised = ""
SelectedRound == Get(debate_history[last_call.round])

\* C13: select_winning_proposal(round, i) with a valid i makes proposals[i]
\* the round's winning proposal, returns it, and records exactly one
\* interaction, of impact +0.2 when i = 0 and -0.1 otherwise
C13_SelectionRecordsOneInteraction ==
    Selected =>
        LET chosen == ListItem(SelectedRound.proposals, last_call.choice_idx)
            n == Len(last_call.before.recent_interactions)
        IN /\ SelectedRound.winning_proposal = Some(chosen)
           /\ last_call.proposal = chosen
           /\ Len(recent_interactions) = n + 1
           /\ recent_interactions[n + 1].impact =
                  IF last_call.choice_idx = 0 THEN 2 ELSE -1

C13_SelectedWithoutAffectedPieces ==
    /\ Selected
    /\ last_call.prior.op = "conduct_debate"
    /\ last_call.prior.round = last_call.round
    /\ last_call.proposal.affected_pieces = <<>>
    /\ recent_interactions = last_call.before.recent_interactions

\* the last call was a selection made on the round that the conduct_debate
\* just before it returned: the two calls of one turn
FullTurn ==
    /\ Selected
    /\ last_call.prior.op = "conduct_debate"
    /\ last_call.prior.round = last_call.round

\* C14: over one full turn the team state gains the consensus bonus
\* (+0.1 cohesion, +0.05 morale, +0.1 coordination, +0.05 leadership) exactly
\* once when the round has consensus and is unchanged when it has not
C14_ConsensusBonusOncePerTurn ==
    FullTurn =>
        LET was == last_call.prior.psychological_state
        IN IF has_consensus(SelectedRound.proposals)
           THEN /\ psychological_state.cohesion = was.cohesion + 10
                /\ psychological_state.morale = was.morale + 5
                /\ psychological_state.coordination = was.coordination + 10
                /\ psychological_state.leadership = was.leadership + 5
           ELSE psychological_state = was

C14_ConsensusTurnFromDefaults ==
    /\ FullTurn
    /\ Len(SelectedRound.proposals) = 2
    /\ has_consensus(SelectedRound.proposals)
    /\ Len(recent_interactions) = Len(last_call.before.recent_interactions) + 1
    /\ last_call.prior.psychological_state = [f \in PsychScalars |-> 50]
    /\ psychological_state.cohesion > 50
    /\ psychological_state.morale > 50

-----------------------------------------------------------------------------
(* Ownership of emotional state *)

\* the deltas carried by the GameMoment of an opponent action of this type
MomentDeltas(ty) ==
    "confidence" :> ((OpponentImpact(ty) * 5 * EmoOne) \div 1000)
        @@ "morale" :> ((OpponentImpact(ty) * 5 * EmoOne) \div 100)

\* the last call was a TRAUMA or THREAT opponent action naming one agent
SingleAgentMoment ==
    /\ last_call.op = "register_opponent_action"
    /\ last_call.interaction_type \in {"TRAUMA", "THREAT"}
    /\ Len(last_call.affected_pieces) = 1
    /\ last_call.affected_pieces[1] \in AgentIds

\* C15: a TRAUMA or THREAT naming a single agent applies the moment's deltas
\* once to that agent's EmotionalState and leaves the EmotionalState of
\* every other agent, those of the same piece type included, unchanged
C15_MomentChangesNamedAgentOnly ==
    SingleAgentMoment =>
        LET id == last_call.affected_pieces[1]
            was == last_call.before.emotional
        IN /\ EmotionalStateOfAgent(emotional, id) =
                  apply_impact(EmotionalStateOfAgent(was, id),
                               MomentDeltas(last_call.interaction_type))
           /\ \A other \in AgentIds \ {id} :
                  EmotionalStateOfAgent(emotional, other) =
                      EmotionalStateOfAgent(was, other)

C15_UnnamedPawnShaken ==
    /\ SingleAgentMoment
    /\ last_call.affected_pieces[1] = <<"P", "e", "2">>
    /\ EmotionalStateOfAgent(emotional, <<"P", "d", "2">>) #
           EmotionalStateOfAgent(last_call.before.emotional, <<"P", "d", "2">>)

\* C16: two moderators created independently share no mutable state: whatever
\* is done to the first, the agents of the second keep the emotional state
\* they were created with
C16_SecondModeratorUntouched ==
    AgentEmotions(SecondModerator, emotional) =
        AgentEmotions(SecondModerator, DEFAULT_EMOTIONAL_STATES)

C16_FirstModeratorKingTraumatised ==
    /\ OpponentCall("TRAUMA")
    /\ last_call.affected_pieces = <<<<"K", "e", "1">>>>
    /\ AgentEmotions(SecondModerator, emotional)[<<"K", "e", "1">>].morale <
           DEFAULT_EMOTIONAL_STATES["K"].morale

\* the last call was an opponent action naming only ids that no agent has
UnknownAgentsNamed ==
    /\ last_call.op = "register_opponent_action"
    /\ last_call.affected_pieces # <<>>
    /\ \A i \in 1..Len(last_call.affected_pieces) :
          last_call.affected_pieces[i] \notin AgentIds

\* C17: an interaction whose agent id is unknown is dropped:
\* register_opponent_action (and the register_interaction it calls) leaves
\* trust_matrix and recent_interactions as they were and creates no
\* trust_matrix key holding the unknown id
C17_UnknownAgentDropped ==
    UnknownAgentsNamed =>
        /\ trust_matrix = last_call.before.trust_matrix
        /\ recent_interactions = last_call.before.recent_interactions
        /\ \A key \in DOMAIN trust_matrix \ DOMAIN last_call.before.trust_matrix :
              key[1] \in AgentIds

C17_UnknownAgentKeyed ==
    /\ UnknownAgentsNamed
    /\ last_call.before.recent_interactions = <<>>
    /\ Len(recent_interactions) = 1
    /\ recent_interactions[1].piece1 = UnknownId
    /\ \E key \in DOMAIN trust_matrix : key[1] = UnknownId

-----------------------------------------------------------------------------
(* Agents and the board *)

\* the last call was conduct_debate: positions were brought up to date
Debated == last_call.op = "conduct_debate"
\* the agent _find_piece_agent resolves for a move's origin square
OwnerOf(m) ==
    _find_piece_agent(Upper(BoardAfter(last_call.position)[FromSquare(m)]),
                      FromSquare(m), pieces)

\* C18: with conduct_debate called each turn on the full move history, every
\* agent whose piece is still on the board has that piece's square, and the
\* origin of every debated legal move resolves to the agent of the piece
\* standing there
C18_AgentSquaresTrackBoard ==
    Debated =>
        LET actual == ActualSquares(last_call.position)
        IN /\ \A id \in AgentIds :
                ~IsNone(actual[id]) => pieces[id].square = Get(actual[id])
           /\ \A m \in Range(last_call.moves) :
                /\ ~IsNone(OwnerOf(m))
                /\ actual[Get(OwnerOf(m))] = Some(FromSquare(m))

C18_RookLeftBehindByCastling ==
    /\ Debated
    /\ ActualSquares(last_call.position)[<<"R", "h", "1">>] = Some(<<"f", "1">>)
    /\ pieces[<<"R", "h", "1">>].square = <<"h", "1">>
    /\ pieces[<<"K", "e", "1">>].square = <<"g", "1">>

\* C19: once an agent's piece is captured the agent is out of play: it is
\* never resolved as the owner of a debated move nor asked for a proposal
C19_CapturedAgentNeverResolved ==
    Debated =>
        \A m \in Range(last_call.moves) :
            ~IsNone(OwnerOf(m)) =>
                ~IsNone(ActualSquares(last_call.position)[Get(OwnerOf(m))])

C19_CapturedPawnAsked ==
    /\ Debated
    /\ last_call.moves = <<<<"e", "4", "e", "5">>>>
    /\ ActualSquares(last_call.position)[<<"P", "e", "2">>] = None
    /\ ActualSquares(last_call.position)[<<"P", "d", "2">>] = Some(<<"e", "4">>)
    /\ OwnerOf(<<"e", "4", "e", "5">>) = Some(<<"P", "e", "2">>)
    /\ ~IsNone(last_call.evals[<<"e", "4", "e", "5">>])
    /\ last_call.round # 0

-----------------------------------------------------------------------------
(* Game memory *)

\* the moment GameMemory recorded last
LastMoment == game_memory.key_moments[Len(game_memory.key_moments)]

\* C20: after conduct_debate and then select_winning_proposal(round, i) the
\* moment recorded for the turn carries the move of the final winning
\* proposal, proposals[i].move
C20_MomentCarriesSelectedMove ==
    FullTurn =>
        LastMoment.move =
            ListItem(SelectedRound.proposals, last_call.choice_idx).move

C20_MomentKeepsDefaultWinner ==
    /\ FullTurn
    /\ last_call.choice_idx = 1
    /\ Len(game_memory.key_moments) = 1
    /\ LastMoment.move = SelectedRound.proposals[1].move
    /\ Get(SelectedRound.winning_proposal).move = SelectedRound.proposals[2].move
    /\ SelectedRound.proposals[1].move # SelectedRound.proposals[2].move

-----------------------------------------------------------------------------
(* Debate history *)

\* the rounds of debate_history whose winner is set
DecidedRounds ==
    {r \in 1..Len(debate_history) :
        /\ ~IsNone(debate_history[r])
        /\ ~IsNone(Get(debate_history[r]).winning_proposal)}

\* C21: a round in debate_history whose winner is set is never changed by a
\* later operation, select_winning_proposal on that round included, and
\* debate_history only grows, by one DebateRound per conduct_debate call
C21_DecidedRoundsNeverMutated ==
    [][/\ \A r \in DecidedRounds :
            /\ r <= Len(debate_history')
            /\ debate_history'[r] = debate_history[r]
       /\ \/ debate_history' = debate_history
          \/ /\ last_call'.op = "conduct_debate"
             /\ Len(debate_history') = Len(debate_history) + 1
             /\ SubSeq(debate_history', 1, Len(debate_history)) = debate_history]_vars

C21_WinnerRewritten ==
    /\ FullTurn
    /\ last_call.choice_idx = 1
    /\ Get(SelectedRound.winning_proposal) = SelectedRound.proposals[2]
    /\ SelectedRound.proposals[2] # SelectedRound.proposals[1]

-----------------------------------------------------------------------------
(* Opponent actions, interaction by interaction *)

\* C22: register_opponent_action appends one Interaction per affected agent,
\* of impact -0.5 (TRAUMA), -0.3 (THREAT), -0.2 (STALKING) or -0.1 (any other
\* type), against the opposing piece named by the move's destination square,
\* with trust entry impact * 0.3; for a type other than TRAUMA and THREAT the
\* team state and every agent's confidence and morale are unchanged
C22_OneInteractionPerAffectedAgent ==
    last_call.op = "register_opponent_action" =>
        LET was == last_call.before
            n == Len(was.recent_interactions)
            k == Len(last_call.affected_pieces)
            ty == last_call.interaction_type
            tenths == CASE ty = "TRAUMA" -> -5 [] ty = "THREAT" -> -3
                        [] ty = "STALKING" -> -2 [] OTHER -> -1
            enemy == <<"b", "l", "a", "c", "k", "_",
                       last_call.move[3], last_call.move[4]>>
        IN /\ Len(recent_interactions) = n + k
           /\ SubSeq(recent_interactions, 1, n) = was.recent_interactions
           /\ \A i \in 1..k :
                /\ recent_interactions[n + i].piece1 = last_call.affected_pieces[i]
                /\ recent_interactions[n + i].piece2 = enemy
                /\ recent_interactions[n + i].type = ty
                /\ recent_interactions[n + i].impact = tenths
                /\ trust_matrix[<<last_call.affected_pieces[i], enemy>>] = 3 * tenths
           /\ ty \notin {"TRAUMA", "THREAT"} =>
                /\ psychological_state = was.psychological_state
                /\ \A id \in AgentIds : \A e \in {"confidence", "morale"} :
                      EmotionalStateOfAgent(emotional, id)[e] =
                          EmotionalStateOfAgent(was.emotional, id)[e]

C22_StalkedPairAfterTrauma ==
    /\ OpponentCall("STALKING")
    /\ Len(last_call.affected_pieces) = 2
    /\ Len(last_call.before.recent_interactions) = 1
    /\ Len(recent_interactions) = 3
    /\ recent_interactions[3].impact = -2
    /\ last_call.before.psychological_state.morale < 50
    /\ psychological_state = last_call.before.psychological_state

-----------------------------------------------------------------------------
(* RelationshipNetwork *)

\* C23: recent_interactions is a bounded FIFO: however many interactions
\* are registered, it never holds more than the window of five
C23_RecentInteractionsBounded ==
    Len(recent_interactions) <= Window

C23_SixthInteractionKept ==
    /\ last_call.op = "register_opponent_action"
    /\ Len(last_call.before.recent_interactions) = Window
    /\ Len(recent_interactions) = Window + 1
    /\ SubSeq(recent_interactions, 1, Window) = last_call.before.recent_interactions

\* the triggers held by a game memory, over all pieces
TriggerCount(gm) ==
    LET RECURSIVE Sum(_)
        Sum(S) == IF S = {} THEN 0
                  ELSE LET k == CHOOSE x \in S : TRUE
                       IN Len(gm.emotional_triggers[k]) + Sum(S \ {k})
    IN Sum(DOMAIN gm.emotional_triggers)

\* C24: record_moment always completes, appends the moment, and stores a
\* Trigger for the moving piece exactly when the largest absolute impact
\* value exceeds 0.2 - none for an empty impact map
C24_TriggerIffLargestMagnitudeOverThreshold ==
    last_call.op = "record_moment" =>
        LET impact == last_call.emotional_impact
            magnitudes == {Abs(impact[k]) : k \in DOMAIN impact}
            large == magnitudes # {} /\ Max(magnitudes) > TriggerThreshold
            was == last_call.before
        IN /\ last_call.raised = ""
           /\ game_memory.key_moments # <<>>
           /\ LastMoment.move = last_call.move
           /\ LastMoment.impact = impact
           /\ TriggerCount(game_memory) =
                  TriggerCount(was) + (IF large THEN 1 ELSE 0)

C24_NegativeOutweighsPositive ==
    /\ last_call.op = "record_moment"
    /\ last_call.raised = ""
    /\ last_call.emotional_impact = [morale |-> -30, cohesion |-> 10]
    /\ TriggerCount(game_memory) = TriggerCount(last_call.before)

-----------------------------------------------------------------------------
(* AgentCaretaker *)

\* C25: restore_state(id, t) returns the snapshot of agent id with the
\* greatest saved turn that is at most t, the most recently saved one among
\* equal turns, and nothing when the agent has none at or before t;
\* save_state only appends to the agent's snapshot list
C25_RestoreLatestAtOrBefore ==
    /\ last_call.op = "restore_state" =>
          LET id == last_call.piece_type
              hist == IF id \in DOMAIN caretaker THEN caretaker[id] ELSE <<>>
              eligible == {i \in 1..Len(hist) : hist[i].timestamp <= last_call.turn}
              best == {i \in eligible :
                          \A j \in eligible :
                              \/ hist[j].timestamp < hist[i].timestamp
                              \/ hist[j].timestamp = hist[i].timestamp /\ j <= i}
          IN IF eligible = {} THEN last_call.returned = None
             ELSE last_call.returned \in {Some(i) : i \in best}
    /\ last_call.op = "save_state" =>
          LET id == last_call.piece_type
              was == last_call.before
          IN /\ Len(caretaker[id]) = Len(was[id]) + 1
             /\ SubSeq(caretaker[id], 1, Len(was[id])) = was[id]
             /\ caretaker[id][Len(caretaker[id])].timestamp = last_call.turn
             /\ \A other \in DOMAIN was \ {id} : caretaker[other] = was[other]

C25_RestoredAmongEqualAndLaterTurns ==
    /\ last_call.op = "restore_state"
    /\ last_call.piece_type = <<"P", "e", "2">>
    /\ last_call.turn = 1
    /\ Len(caretaker[<<"P", "e", "2">>]) = 3
    /\ caretaker[<<"P", "e", "2">>][1].timestamp = 2
    /\ caretaker[<<"P", "e", "2">>][2].timestamp = 0
    /\ caretaker[<<"P", "e", "2">>][3].timestamp = 0
    /\ last_call.returned = Some(3)

\* what is read through the i-th memento of an agent: the memento holds the
\* EmotionalState object, so its values are those the heap has for it
MementoValues(ct, heap, id, i) == heap[ct[id][i].emotional_state]

\* C26: a saved snapshot is a deep copy: whatever happens to the live
\* EmotionalState after the save, the values read from a snapshot already
\* taken (the ones restore_state hands back) stay what they were
C26_SnapshotsKeepSavedValues ==
    [][\A id \in AgentIds : \A i \in 1..Len(caretaker[id]) :
          MementoValues(caretaker', emotional', id, i) =
              MementoValues(caretaker, emotional, id, i)]_vars

C26_SnapshotFollowsLiveKing ==
    /\ OpponentCall("TRAUMA")
    /\ Len(caretaker[<<"K", "e", "1">>]) = 1
    /\ restore_state(caretaker, <<"K", "e", "1">>, 0) = Some(1)
    /\ MementoValues(caretaker, last_call.before.emotional, <<"K", "e", "1">>, 1).morale
          = DEFAULT_EMOTIONAL_STATES["K"].morale
    /\ MementoValues(caretaker, emotional, <<"K", "e", "1">>, 1).morale
          < DEFAULT_EMOTIONAL_STATES["K"].morale

-----------------------------------------------------------------------------
(* Support bonus *)

\* the interactions between two pieces, in either order, oldest first
BetweenPair(a, b) ==
    LET Between(i) == \/ (i.piece1 = a /\ i.piece2 = b)
                      \/ (i.piece1 = b /\ i.piece2 = a)
    IN SelectSeq(recent_interactions, Between)

\* the mean impact, in units of 1/200, of the cooperative interactions among
\* the last five interactions between the two pieces; 0 if there are none
PairCooperation(a, b) ==
    LET pair == BetweenPair(a, b)
        n == Len(pair)
        lastN == SubSeq(pair, IF n > Window THEN n - Window + 1 ELSE 1, n)
        IsCoop(i) == i.type \in {"COOPERATION", "SUPPORT"}
        cooperative == SelectSeq(lastN, IsCoop)
    IN IF cooperative = <<>> THEN 0
       ELSE (20 * SumImpact(cooperative)) \div Len(cooperative)

\* C27: get_support_bonus(a, b) = trust(a, b) * (1 + 0.5 * r), trust being
\* the matrix entry or 0.5, and r the mean impact of the COOPERATION or
\* SUPPORT interactions among the last five interactions between a and b;
\* interactions of other pairs recorded in between do not change r
C27_BonusFromLastFiveOfThePair ==
    last_call.op = "get_support_bonus" =>
        LET a == last_call.piece1
            b == last_call.piece2
            trust == IF <<a, b>> \in DOMAIN trust_matrix
                     THEN trust_matrix[<<a, b>>] ELSE 50
        IN last_call.returned = trust * (400 + PairCooperation(a, b))

C27_PairPushedOutOfWindow ==
    /\ last_call.op = "get_support_bonus"
    /\ last_call.piece1 = <<"N">>
    /\ last_call.piece2 = <<"Q">>
    /\ Len(BetweenPair(<<"N">>, <<"Q">>)) = 1
    /\ recent_interactions[1].type = "SUPPORT"
    /\ Len(recent_interactions) = MaxNetwork
    /\ PairCooperation(<<"N">>, <<"Q">>) = 200
    /\ last_call.returned = 30 * 400
\* a play_move call that returned
Played == last_call.op = "play_move" /\ last_call.raised = ""

\* C28: play_move(handle_black_move=False) on a position with White to move
\* applies the selected proposal's move and nothing else, move_history ending
\* one entry longer with no Black move requested; with handle_black_move=True
\* White's move is followed by one Black move, move_history ending two
\* entries longer with White to move.
C28_PlayMoveAppliesFlaggedMoves ==
    Played =>
        IF last_call.handle_black_move
        THEN /\ Len(move_history) = Len(last_call.position) + 2
             /\ SubSeq(move_history, 1, Len(last_call.position) + 1)
                    = Append(last_call.position, last_call.proposal.move)
             /\ Len(move_history) % 2 = 0
        ELSE /\ move_history = Append(last_call.position, last_call.proposal.move)
             /\ ~last_call.black_prompted

\* play_move(handle_black_move=False) with is_test left at its default, from
\* the starting position: two moves are on the board when it returns
C28_BlackMoveWithoutFlag ==
    /\ Played
    /\ ~last_call.handle_black_move
    /\ ~last_call.is_test
    /\ last_call.position = <<>>
    /\ Len(move_history) = 2
\* a register_interaction call that returned
Registered == last_call.op = "register_interaction" /\ last_call.raised = ""

\* C29: for an interaction whose impact lies in [-1,1], register_interaction
\* leaves the four team scalars as they were: the trust change impact * 0.3
\* it stores and announces never exceeds 0.3 in magnitude, the threshold the
\* team observer tests strictly.
C29_RegisterLeavesTeamPsychology ==
    Registered =>
        LET i == last_call.interaction
        IN /\ psychological_state = last_call.before.psychological_state
           /\ trust_matrix[<<i.piece1, i.piece2>>] = TrustChange(i.impact)
           /\ Abs(trust_matrix[<<i.piece1, i.piece2>>]) <= 30

\* an interaction of impact -1.0: the trust change is -0.3, on the threshold
C29_FullNegativeImpactRegistered ==
    /\ Registered
    /\ last_call.interaction.impact = -10
    /\ trust_matrix[<<last_call.interaction.piece1,
                       last_call.interaction.piece2>>] = -30
    /\ psychological_state = last_call.before.psychological_state
\* a get_support_bonus call, and whether an interaction was registered for
\* the ordered pair it asks about, or for the pair in either order
BonusAsked == last_call.op = "get_support_bonus"
RegisteredFor(a, b) ==
    \E k \in 1..Len(recent_interactions) :
        recent_interactions[k].piece1 = a /\ recent_interactions[k].piece2 = b

====
